---- MODULE Spec2Model ----
(***************************************************************************)
(* A model of tools/obtain_historical_data.py (the bestseller acquisition  *)
(* script) and of the schedule table written by                            *)
(* tools/create_data_acquisition_schedule.py.                              *)
(*                                                                         *)
(* Dates are proleptic Gregorian day ordinals, as datetime.date.toordinal  *)
(* gives them: ordinal 1 is a Monday and date.weekday() is                 *)
(* (ordinal + 6) % 7.  The "%Y-%m-%d" strings the script passes around are *)
(* in one-to-one, order-preserving correspondence with these ordinals.     *)
(* A pandas DataFrame is a sequence of rows; a row is a function from      *)
(* column names to values; a missing value (None / NaN) is NaN.            *)
(***************************************************************************)
EXTENDS Integers, Sequences, FiniteSets, TLC

VARIABLES
    pc,              \* where the script is
    today,           \* datetime.today(), as a day ordinal
    start_date,      \* the range handed to gather_bestseller_data
    end_date,
    sundays,         \* get_sundays(start_date, end_date)
    date_i,          \* position of the outer loop (index into sundays)
    cat_i,           \* position of the inner loop (index into CATEGORIES)
    total_requests,  \* the local counter of gather_bestseller_data
    all_dataframes,  \* the list of fetched frames
    agg_data,        \* the aggregated frame
    enrich_i,        \* position of the loop of update_review_contents
    url,             \* urls[0] between the two review lookups
    output_file,     \* the file written by to_csv, or NoFile
    fetch_requests,  \* requests.get calls made by fetch_bestsellers
    review_requests, \* requests.get calls made by the two review lookups
    errors_logged,   \* logger.error calls
    notices_logged,  \* logger.info and logger.warning calls
    delayed,         \* time.sleep(12) has run since the last requests.get
    last_outcome     \* how the last requests.get ended

vars == <<pc, today, start_date, end_date, sundays, date_i, cat_i, total_requests,
          all_dataframes, agg_data, enrich_i, url, output_file, fetch_requests,
          review_requests, errors_logged, notices_logged, delayed, last_outcome>>

NaN == "NaN"
NoDate == 0
NoFile == <<>>
NoUrl == "<none>"

----------------------------------------------------------------------------
(* Bounds of the model.                                                    *)

\* The request ceiling of gather_bestseller_data (500 in the script),
\* scaled to the size of the modelled work list.
RequestCeiling == 2
\* Length in days of one period of the schedule (half a year in the script).
PeriodDays == 14
\* Number of years the schedule covers (2010..2023 in the script).
NumYears == 1
\* Day ordinals 1..MaxDay are the inputs of get_sundays.
MaxDay == 21

----------------------------------------------------------------------------
(* Program constants.                                                      *)

\* Two of the seven list names of the script, in the script's order.
CATEGORIES == <<"Hardcover Fiction", "Hardcover Nonfiction">>

KEEP_FEATURES ==
    {"rank", "weeks_on_list", "primary_isbn13", "publisher", "description",
     "title", "author"}

REVIEW_FEATURES == <<"abstract", "lead_paragraph", "headline">>

\* earliest_date: a Friday, as 2010-01-01 is.
EarliestDate == 5

\* acquisition_start_date: the day after the last period of the schedule.
AcquisitionStartDate == EarliestDate + 2 * NumYears * PeriodDays

----------------------------------------------------------------------------
(* Dates and the Scheduler.                                                *)

Days == 1..MaxDay

\* datetime.date.weekday(): Monday is 0, Sunday is 6.
weekday(d) == (d + 6) % 7

first_sunday_shifted(start) == start + ((7 - weekday(start)) % 7)

\* The first Sunday on or after start.
first_sunday(start) == start + ((6 - weekday(start)) % 7)

RECURSIVE sundays_from(_, _)
\* The while loop of get_sundays.
sundays_from(current_date, end) ==
    IF current_date <= end
    THEN <<current_date>> \o sundays_from(current_date + 7, end)
    ELSE <<>>

get_sundays(start, end) == sundays_from(first_sunday(start), end)

----------------------------------------------------------------------------
(* The schedule table (acquisition_dates.csv).                             *)

\* The periods list: two consecutive periods per year.
Periods ==
    [k \in 1..(2 * NumYears) |->
        [start_date |-> EarliestDate + (k - 1) * PeriodDays,
         end_date   |-> EarliestDate + k * PeriodDays - 1]]

\* Row k of the table (its pandas label is k - 1): one acquisition day per
\* period, on consecutive days.
acquisition_dates ==
    [k \in 1..Len(Periods) |->
        [acquisition_date |-> AcquisitionStartDate + (k - 1),
         start_date       |-> Periods[k].start_date,
         end_date         |-> Periods[k].end_date]]

\* The days the script may be run on: every acquisition day, and the day
\* before the first and after the last.
RunDays == (AcquisitionStartDate - 1)..(AcquisitionStartDate + Len(acquisition_dates))

----------------------------------------------------------------------------
(* Responses of the books API.                                             *)

Book(isbn, rank, weeks, publisher, description, title, author) ==
    [primary_isbn13 |-> isbn, rank |-> rank, weeks_on_list |-> weeks,
     publisher |-> publisher, description |-> description, title |-> title,
     author |-> author]

\* The book objects a response may carry: two entries of one book with
\* different ranks, weeks and missing fields, another book, and an entry
\* whose primary_isbn13 is null.
Books ==
    {Book("111", 5, 3,  "P1", NaN,  "T1", NaN),
     Book("111", 2, 10, "P2", "D2", NaN,  NaN),
     Book("222", 1, 1,  NaN,  "D3", "T3", "A3"),
     Book(NaN,   3, 4,  "P4", "D4", "T4", "A4")}

\* data["results"]["books"] of a usable response: one book object, or two
\* different ones in either order.
BookLists ==
    {<<b>> : b \in Books} \cup {l \in Books \X Books : l[1] /= l[2]}

\* All identifiers, in the order groupby sorts them.
IsbnOrder == <<"111", "222">>

\* Row r with column c set to v (added when absent).
Put(r, c, v) == [k \in (DOMAIN r) \cup {c} |-> IF k = c THEN v ELSE r[k]]

\* Row r without column c.
Drop(r, c) == [k \in (DOMAIN r) \ {c} |-> r[k]]

\* The frame fetch_bestsellers returns for a usable response.
bestsellers_frame(books, date, category) ==
    [i \in 1..Len(books) |->
        Put(Put([c \in KEEP_FEATURES |-> books[i][c]], "bestseller_date", date),
            "category", category)]

----------------------------------------------------------------------------
(* The Aggregator.                                                         *)

RECURSIVE concat(_)
\* pd.concat(frames, ignore_index=True) of a non-empty list.
concat(frames) ==
    IF frames = <<>> THEN <<>> ELSE Head(frames) \o concat(Tail(frames))

Column(df, c) == [i \in 1..Len(df) |-> df[i][c]]

RECURSIVE seq_min(_)
seq_min(s) ==
    IF Len(s) = 1 THEN s[1]
    ELSE LET m == seq_min(Tail(s)) IN IF s[1] <= m THEN s[1] ELSE m

RECURSIVE seq_max(_)
seq_max(s) ==
    IF Len(s) = 1 THEN s[1]
    ELSE LET m == seq_max(Tail(s)) IN IF s[1] >= m THEN s[1] ELSE m

dropna(series) == SelectSeq(series, LAMBDA v : v /= NaN)

first_value(series) == series[1]

first_non_nan(series) ==
    IF dropna(series) /= <<>> THEN dropna(series)[1] ELSE NaN

\* The rows of one group, in the order of the frame.
group_rows(df, isbn) == SelectSeq(df, LAMBDA r : r.primary_isbn13 = isbn)

\* The named aggregations of one group.
agg_row(df, isbn) ==
    LET g == group_rows(df, isbn) IN
    [primary_isbn13         |-> isbn,
     best_rank              |-> seq_min(Column(g, "rank")),
     max_weeks_on_list      |-> seq_max(Column(g, "weeks_on_list")),
     publisher              |-> first_non_nan(Column(g, "publisher")),
     description            |-> first_non_nan(Column(g, "description")),
     title                  |-> first_non_nan(Column(g, "title")),
     author                 |-> first_non_nan(Column(g, "author")),
     latest_bestseller_date |-> seq_max(Column(g, "bestseller_date"))]

RECURSIVE groupby_agg(_, _)
\* groupby("primary_isbn13").agg(...).reset_index(): one row per key present
\* in the frame, keys sorted, rows whose key is missing left out.
groupby_agg(df, k) ==
    IF k > Len(IsbnOrder) THEN <<>>
    ELSE (IF group_rows(df, IsbnOrder[k]) /= <<>>
          THEN <<agg_row(df, IsbnOrder[k])>> ELSE <<>>)
         \o groupby_agg(df, k + 1)

\* all_data after the concat and the drop of the category column.
all_data_of(frames) ==
    LET d == concat(frames) IN [i \in 1..Len(d) |-> Drop(d[i], "category")]

----------------------------------------------------------------------------
(* The Enricher.                                                           *)

\* The "url" values a reviews response may list.
Urls == {"u1", "u2"}

\* The article document docs[0]: one with an abstract and a headline and
\* without a lead paragraph.
Docs == {[abstract |-> "A", headline |-> "H"]}

\* The results dictionary get_review_content_by_url builds from docs[0].
review_results(doc) ==
    [f \in {"abstract", "lead_paragraph", "headline"} |->
        IF f \in DOMAIN doc THEN doc[f] ELSE ""]

\* The empty results dictionary.
NoResults == <<>>

\* data_df.at[i, c] = v: a new column holds NaN in the other rows.
set_at(df, i, c, v) ==
    [j \in 1..Len(df) |->
        IF j = i THEN Put(df[j], c, v)
        ELSE IF c \in DOMAIN df[j] THEN df[j] ELSE Put(df[j], c, NaN)]

\* review_contents.get(feature_name, "")
get_or_empty(results, f) == IF f \in DOMAIN results THEN results[f] ELSE ""

RECURSIVE set_features(_, _, _, _)
\* The loop over the three feature names for row i.
set_features(df, i, results, k) ==
    IF k > Len(REVIEW_FEATURES) THEN df
    ELSE set_features(
             set_at(df, i, REVIEW_FEATURES[k], get_or_empty(results, REVIEW_FEATURES[k])),
             i, results, k + 1)

----------------------------------------------------------------------------
(* The script.                                                             *)

Init ==
    /\ pc = "lookup"
    /\ today \in RunDays
    /\ start_date = NoDate
    /\ end_date = NoDate
    /\ sundays = <<>>
    /\ date_i = 1
    /\ cat_i = 1
    /\ total_requests = 0
    /\ all_dataframes = <<>>
    /\ agg_data = <<>>
    /\ enrich_i = 1
    /\ url = NoUrl
    /\ output_file = NoFile
    /\ fetch_requests = 0
    /\ review_requests = 0
    /\ errors_logged = 0
    /\ notices_logged = 0
    /\ delayed = TRUE
    /\ last_outcome = "none"

\* The labels of the rows of the table whose acquisition_date is today.
matching_rows ==
    {k \in 1..Len(acquisition_dates) : acquisition_dates[k].acquisition_date = today}

\* The schedule lookup, up to the first lines of gather_bestseller_data.
\* params["start_date"][0] reads the row labelled 0, the first row of the
\* table, and raises KeyError when that row is not among the matching ones.
ScheduleLookup ==
    /\ pc = "lookup"
    /\ IF matching_rows = {}
       THEN /\ pc' = "no_match"
            /\ UNCHANGED <<start_date, end_date, sundays>>
       ELSE IF 1 \notin matching_rows
       THEN /\ pc' = "key_error"
            /\ UNCHANGED <<start_date, end_date, sundays>>
       ELSE /\ pc' = "fetching"
            /\ start_date' = acquisition_dates[1].start_date
            /\ end_date' = acquisition_dates[1].end_date
            /\ sundays' = get_sundays(acquisition_dates[1].start_date,
                                      acquisition_dates[1].end_date)
    /\ UNCHANGED <<today, date_i, cat_i, total_requests, all_dataframes, agg_data,
                   enrich_i, url, output_file, fetch_requests, review_requests,
                   errors_logged, notices_logged, delayed, last_outcome>>

\* A (date, category) pair is left to fetch.
InLoop == pc = "fetching" /\ date_i <= Len(sundays)

\* The loops move to the next (date, category) pair.
NextKey ==
    IF cat_i < Len(CATEGORIES)
    THEN cat_i' = cat_i + 1 /\ date_i' = date_i
    ELSE cat_i' = 1 /\ date_i' = date_i + 1

\* fetch_and_process_data returns a frame: the counter is incremented and
\* the frame appended.
FetchOK ==
    /\ InLoop
    /\ total_requests < RequestCeiling
    /\ \E books \in BookLists :
          all_dataframes' =
              Append(all_dataframes,
                     bestsellers_frame(books, sundays[date_i], CATEGORIES[cat_i]))
    /\ total_requests' = total_requests + 1
    /\ fetch_requests' = fetch_requests + 1
    /\ delayed' = TRUE
    /\ last_outcome' = "ok"
    /\ notices_logged' = notices_logged + 1
    /\ NextKey
    /\ UNCHANGED <<pc, today, start_date, end_date, sundays, agg_data, enrich_i, url,
                   output_file, review_requests, errors_logged>>

\* The response has a 4xx/5xx status: raise_for_status raises HTTPError after
\* the sleep, before the counter is incremented; the except clause logs it.
FetchHTTPErrorAborts ==
    /\ InLoop
    /\ total_requests < RequestCeiling
    /\ fetch_requests' = fetch_requests + 1
    /\ delayed' = TRUE
    /\ last_outcome' = "http_error"
    /\ pc' = "aborted"
    /\ UNCHANGED <<today, start_date, end_date, sundays, date_i, cat_i, total_requests,
                   all_dataframes, agg_data, enrich_i, url, output_file,
                   review_requests, errors_logged, notices_logged>>

FetchHTTPError ==
    /\ InLoop
    /\ total_requests < RequestCeiling
    /\ fetch_requests' = fetch_requests + 1
    /\ delayed' = TRUE
    /\ last_outcome' = "http_error"
    /\ errors_logged' = errors_logged + 1
    /\ NextKey
    /\ UNCHANGED <<pc, today, start_date, end_date, sundays, total_requests,
                   all_dataframes, agg_data, enrich_i, url, output_file,
                   review_requests, notices_logged>>

\* requests.get raises (timeout, connection error): not an HTTPError, so no
\* except clause of the run catches it; the sleep is not reached.
FetchNoResponse ==
    /\ InLoop
    /\ total_requests < RequestCeiling
    /\ fetch_requests' = fetch_requests + 1
    /\ delayed' = FALSE
    /\ last_outcome' = "no_response"
    /\ pc' = "aborted"
    /\ UNCHANGED <<today, start_date, end_date, sundays, date_i, cat_i, total_requests,
                   all_dataframes, agg_data, enrich_i, url, output_file,
                   review_requests, errors_logged, notices_logged>>

\* A 2xx response whose body is not the expected JSON (no "results", no
\* "books", an empty list of books, a missing feature): response.json() or
\* the indexing raises, after the sleep, and nothing catches it.
FetchMalformed ==
    /\ InLoop
    /\ total_requests < RequestCeiling
    /\ fetch_requests' = fetch_requests + 1
    /\ delayed' = TRUE
    /\ last_outcome' = "malformed"
    /\ pc' = "aborted"
    /\ UNCHANGED <<today, start_date, end_date, sundays, date_i, cat_i, total_requests,
                   all_dataframes, agg_data, enrich_i, url, output_file,
                   review_requests, errors_logged, notices_logged>>

\* The counter has reached the ceiling with a pair left: the concatenated
\* frames are returned as they are, and the script writes them.
BudgetExhausted ==
    /\ InLoop
    /\ total_requests >= RequestCeiling
    /\ output_file' = [start_date |-> start_date, end_date |-> end_date,
                       rows |-> concat(all_dataframes)]
    /\ notices_logged' = notices_logged + 1
    /\ pc' = "done"
    /\ UNCHANGED <<today, start_date, end_date, sundays, date_i, cat_i, total_requests,
                   all_dataframes, agg_data, enrich_i, url, fetch_requests,
                   review_requests, errors_logged, delayed, last_outcome>>

\* The loops are over: concat, to_datetime, drop, groupby and agg.
\* pd.concat raises ValueError on an empty list.
Aggregate ==
    /\ pc = "fetching"
    /\ date_i > Len(sundays)
    /\ IF all_dataframes = <<>>
       THEN pc' = "aborted" /\ UNCHANGED agg_data
       ELSE /\ pc' = "enriching"
            /\ agg_data' = groupby_agg(all_data_of(all_dataframes), 1)
    /\ UNCHANGED <<today, start_date, end_date, sundays, date_i, cat_i, total_requests,
                   all_dataframes, enrich_i, url, output_file, fetch_requests,
                   review_requests, errors_logged, notices_logged, delayed, last_outcome>>

\* A row of agg_data is left to enrich.
InReviewLoop == pc = "enriching" /\ enrich_i <= Len(agg_data)

\* get_book_review_url_by_isbn13: requests.get raises; the except clause
\* logs it and the sleep is not reached; no URL, next row.
ReviewUrlNoResponse ==
    /\ InReviewLoop
    /\ review_requests' = review_requests + 1
    /\ delayed' = FALSE
    /\ last_outcome' = "no_response"
    /\ errors_logged' = errors_logged + 1
    /\ enrich_i' = enrich_i + 1
    /\ UNCHANGED <<pc, today, start_date, end_date, sundays, date_i, cat_i,
                   total_requests, all_dataframes, agg_data, url, output_file,
                   fetch_requests, notices_logged>>

\* get_book_review_url_by_isbn13: a 4xx/5xx status; logged, no URL.
ReviewUrlHTTPError ==
    /\ InReviewLoop
    /\ review_requests' = review_requests + 1
    /\ delayed' = TRUE
    /\ last_outcome' = "http_error"
    /\ errors_logged' = errors_logged + 1
    /\ enrich_i' = enrich_i + 1
    /\ UNCHANGED <<pc, today, start_date, end_date, sundays, date_i, cat_i,
                   total_requests, all_dataframes, agg_data, url, output_file,
                   fetch_requests, notices_logged>>

\* get_book_review_url_by_isbn13: num_results is 0, or the status is not
\* "OK"; no URL.
ReviewUrlNothing ==
    /\ InReviewLoop
    /\ review_requests' = review_requests + 1
    /\ delayed' = TRUE
    /\ last_outcome' \in {"no_results", "unexpected_format"}
    /\ notices_logged' = notices_logged + 1
    /\ enrich_i' = enrich_i + 1
    /\ UNCHANGED <<pc, today, start_date, end_date, sundays, date_i, cat_i,
                   total_requests, all_dataframes, agg_data, url, output_file,
                   fetch_requests, errors_logged>>

\* get_book_review_url_by_isbn13: status "OK" and num_results > 0 without a
\* usable "results" list: the indexing raises and nothing catches it.
ReviewUrlMalformed ==
    /\ InReviewLoop
    /\ review_requests' = review_requests + 1
    /\ delayed' = TRUE
    /\ last_outcome' = "malformed"
    /\ pc' = "aborted"
    /\ UNCHANGED <<today, start_date, end_date, sundays, date_i, cat_i, total_requests,
                   all_dataframes, agg_data, enrich_i, url, output_file,
                   fetch_requests, errors_logged, notices_logged>>

\* get_book_review_url_by_isbn13 returns list(set(urls)): urls[0] is any of
\* the URLs of the response.
ReviewUrlFound ==
    /\ InReviewLoop
    /\ review_requests' = review_requests + 1
    /\ delayed' = TRUE
    /\ last_outcome' = "ok"
    /\ \E found \in (SUBSET Urls) \ {{}} : url' \in found
    /\ pc' = "review_content"
    /\ UNCHANGED <<today, start_date, end_date, sundays, date_i, cat_i, total_requests,
                   all_dataframes, agg_data, enrich_i, output_file, fetch_requests,
                   errors_logged, notices_logged>>

\* The rest of one iteration of update_review_contents, given what
\* get_review_content_by_url returned.
StoreReview(results) ==
    /\ agg_data' = set_features(agg_data, enrich_i, results, 1)
    /\ enrich_i' = enrich_i + 1
    /\ url' = NoUrl
    /\ pc' = "enriching"

\* get_review_content_by_url: the request or the decoding raises a
\* RequestException or a ValueError, or no document matches: the results
\* are empty; the sleep runs.
ReviewContentNothing ==
    /\ pc = "review_content"
    /\ review_requests' = review_requests + 1
    /\ delayed' = TRUE
    /\ last_outcome' \in {"no_response", "http_error", "invalid_json", "no_docs"}
    /\ StoreReview(NoResults)
    /\ UNCHANGED <<today, start_date, end_date, sundays, date_i, cat_i, total_requests,
                   all_dataframes, output_file, fetch_requests, errors_logged, notices_logged>>

\* get_review_content_by_url: docs[0] is read.
ReviewContentFound ==
    /\ pc = "review_content"
    /\ review_requests' = review_requests + 1
    /\ delayed' = TRUE
    /\ last_outcome' = "ok"
    /\ \E doc \in Docs : StoreReview(review_results(doc))
    /\ UNCHANGED <<today, start_date, end_date, sundays, date_i, cat_i, total_requests,
                   all_dataframes, output_file, fetch_requests, errors_logged, notices_logged>>

\* get_review_content_by_url: "response" or "headline" is not an object:
\* .get raises AttributeError, which nothing catches; the sleep is skipped.
ReviewContentMalformed ==
    /\ pc = "review_content"
    /\ review_requests' = review_requests + 1
    /\ delayed' = FALSE
    /\ last_outcome' = "malformed"
    /\ pc' = "aborted"
    /\ UNCHANGED <<today, start_date, end_date, sundays, date_i, cat_i, total_requests,
                   all_dataframes, agg_data, enrich_i, url, output_file,
                   fetch_requests, errors_logged, notices_logged>>

\* gather_bestseller_data returns agg_data and the script writes it.
WriteOutput ==
    /\ pc = "enriching"
    /\ enrich_i > Len(agg_data)
    /\ output_file' = [start_date |-> start_date, end_date |-> end_date,
                       rows |-> agg_data]
    /\ pc' = "done"
    /\ UNCHANGED <<today, start_date, end_date, sundays, date_i, cat_i, total_requests,
                   all_dataframes, agg_data, enrich_i, url, fetch_requests,
                   review_requests, errors_logged, notices_logged, delayed, last_outcome>>

Next ==
    \/ ScheduleLookup
    \/ FetchOK
    \/ FetchHTTPError
    \/ FetchNoResponse
    \/ FetchMalformed
    \/ BudgetExhausted
    \/ Aggregate
    \/ ReviewUrlNoResponse
    \/ ReviewUrlHTTPError
    \/ ReviewUrlNothing
    \/ ReviewUrlMalformed
    \/ ReviewUrlFound
    \/ ReviewContentNothing
    \/ ReviewContentFound
    \/ ReviewContentMalformed
    \/ WriteOutput

Spec == Init /\ [][Next]_vars

----------------------------------------------------------------------------
(* get_sundays on its own, for every pair of dates.                        *)

InitSundays ==
    /\ pc = "get_sundays"
    /\ today = NoDate
    /\ start_date \in Days
    /\ end_date \in Days
    /\ sundays = <<>>
    /\ date_i = 1
    /\ cat_i = 1
    /\ total_requests = 0
    /\ all_dataframes = <<>>
    /\ agg_data = <<>>
    /\ enrich_i = 1
    /\ url = NoUrl
    /\ output_file = NoFile
    /\ fetch_requests = 0
    /\ review_requests = 0
    /\ errors_logged = 0
    /\ notices_logged = 0
    /\ delayed = TRUE
    /\ last_outcome = "none"

CallGetSundays ==
    /\ pc = "get_sundays"
    /\ sundays' = get_sundays(start_date, end_date)
    /\ pc' = "returned"
    /\ UNCHANGED <<today, start_date, end_date, date_i, cat_i, total_requests,
                   all_dataframes, agg_data, enrich_i, url, output_file,
                   fetch_requests, review_requests, errors_logged, notices_logged, delayed,
                   last_outcome>>

NextSundays == CallGetSundays

SpecSundays == InitSundays /\ [][NextSundays]_vars

----------------------------------------------------------------------------
(* Properties.                                                             *)

\* The (date, category) pairs the loops have gone past.
KeysPassed == (date_i - 1) * Len(CATEGORIES) + (cat_i - 1)

\* The run left the loops through the ceiling check.
BudgetCut == pc = "done" /\ date_i <= Len(sundays)

\* gather_bestseller_data has computed agg_data.
Aggregated ==
    \/ pc \in {"enriching", "review_content"}
    \/ pc = "done" /\ date_i > Len(sundays)

\* The fetched rows as (frame, row) positions; fetch order is their
\* lexicographic order.
Fetched ==
    UNION {{<<a, i>> : i \in 1..Len(all_dataframes[a])} : a \in 1..Len(all_dataframes)}

FetchedRow(p) == all_dataframes[p[1]][p[2]]

Before(p, q) == p[1] < q[1] \/ (p[1] = q[1] /\ p[2] < q[2])

\* The fetched rows of one identifier.
GroupOf(isbn) == {p \in Fetched : FetchedRow(p).primary_isbn13 = isbn}

\* v is the first non-missing value of column c among the fetched rows G, in
\* fetch order, or missing when G has none.
IsFirstNonMissing(v, G, c) ==
    \/ /\ v = NaN
       /\ \A p \in G : FetchedRow(p)[c] = NaN
    \/ \E p \in G :
          /\ FetchedRow(p)[c] = v
          /\ v /= NaN
          /\ \A q \in G : Before(q, p) => FetchedRow(q)[c] = NaN

\* r is the reduction of the group of isbn by the rules of the Aggregator.
IsReductionOf(r, isbn) ==
    LET G == GroupOf(isbn) IN
    /\ \A p \in G : r.best_rank <= FetchedRow(p).rank
    /\ \E p \in G : r.best_rank = FetchedRow(p).rank
    /\ \A p \in G : r.max_weeks_on_list >= FetchedRow(p).weeks_on_list
    /\ \E p \in G : r.max_weeks_on_list = FetchedRow(p).weeks_on_list
    /\ \A p \in G : r.latest_bestseller_date >= FetchedRow(p).bestseller_date
    /\ \E p \in G : r.latest_bestseller_date = FetchedRow(p).bestseller_date
    /\ \A c \in {"publisher", "description", "title", "author"} :
          IsFirstNonMissing(r[c], G, c)

\* The rows of frame df that carry identifier isbn.
RowsWith(df, isbn) == {i \in 1..Len(df) : df[i].primary_isbn13 = isbn}

\* A supplementary field of a row is absent.
Absent(r, f) == f \notin DOMAIN r \/ r[f] = NaN

\* C1: the number of Fetcher requests issued in a run never exceeds the
\* ceiling, whatever mix of successes and HTTP errors occurs.
C1_RequestsWithinCeiling == fetch_requests <= RequestCeiling

\* C2: a Fetcher request that ends in an HTTP error adds no rows, logs exactly
\* one failure, is not retried, leaves the frames collected so far as they
\* are, and the loop goes on to the next (date, category) pair.
C2_HTTPErrorSkipsOneKey ==
    [][(InLoop /\ fetch_requests' > fetch_requests /\ last_outcome' = "http_error")
        => /\ all_dataframes' = all_dataframes
           /\ errors_logged' = errors_logged + 1
           /\ fetch_requests' = fetch_requests + 1
           /\ pc' = "fetching"
           /\ KeysPassed' = KeysPassed + 1]_vars

\* C2, its case: an HTTP error after some frames were collected, with a pair
\* left to fetch.
C2_Witness ==
    /\ InLoop
    /\ last_outcome = "http_error"
    /\ all_dataframes /= <<>>
    /\ errors_logged = 1

\* C3: once a run has started, no failure of the Fetcher or the Enricher
\* aborts it.
C3_RunNeverAborts == pc /= "aborted"

\* C4: a run cut short by the ceiling ends with exactly one aggregate record
\* per identifier fetched so far, reduced by the rules of the Aggregator.
C4_BudgetCutIsAggregated ==
    BudgetCut =>
        \A k \in 1..Len(IsbnOrder) :
            GroupOf(IsbnOrder[k]) /= {} =>
                /\ Cardinality(RowsWith(output_file.rows, IsbnOrder[k])) = 1
                /\ \A i \in RowsWith(output_file.rows, IsbnOrder[k]) :
                      /\ "best_rank" \in DOMAIN output_file.rows[i]
                      /\ IsReductionOf(output_file.rows[i], IsbnOrder[k])

\* C5: the aggregate record of every fetched identifier has the minimum rank,
\* the maximum weeks on list and the maximum sample date of its group, and
\* for each descriptive field the first non-missing value of the group in
\* fetch order, or missing when the group has none.
C5_AggregateIsReduction ==
    Aggregated =>
        \A k \in 1..Len(IsbnOrder) :
            GroupOf(IsbnOrder[k]) /= {} =>
                /\ RowsWith(agg_data, IsbnOrder[k]) /= {}
                /\ \A i \in RowsWith(agg_data, IsbnOrder[k]) :
                      IsReductionOf(agg_data[i], IsbnOrder[k])

\* C5, its case: "111" fetched on the first date with rank 5, 3 weeks and no
\* description, then on the second date with rank 2 and 10 weeks.
C5_Witness ==
    /\ Aggregated
    /\ \E i \in 1..Len(agg_data) :
          /\ agg_data[i].primary_isbn13 = "111"
          /\ agg_data[i].best_rank = 2
          /\ agg_data[i].max_weeks_on_list = 10
          /\ agg_data[i].publisher = "P1"
          /\ agg_data[i].description = "D2"
          /\ agg_data[i].author = NaN
          /\ agg_data[i].latest_bestseller_date > sundays[1]

\* C6: the aggregation puts every identifier in exactly one aggregate record
\* and every fetched row with an identifier in exactly one group, and logs a
\* diagnostic when it leaves out a row whose identifier is missing.
C6_NoSilentDrop ==
    [][(pc = "fetching" /\ pc' = "enriching")
        => /\ \A k \in 1..Len(IsbnOrder) :
                 Cardinality(RowsWith(agg_data', IsbnOrder[k]))
                     = (IF GroupOf(IsbnOrder[k]) /= {} THEN 1 ELSE 0)
           /\ \A i \in 1..Len(agg_data') : agg_data'[i].primary_isbn13 /= NaN
           /\ GroupOf(NaN) /= {}
                 => errors_logged' + notices_logged' > errors_logged + notices_logged]_vars

\* C7: get_sundays(start, end) is the increasing list of the Sundays d with
\* start <= d <= end, 7 days apart, empty when start > end.
C7_SundaysOfRange ==
    pc = "returned" =>
        /\ \A i \in 1..Len(sundays) :
              weekday(sundays[i]) = 6 /\ start_date <= sundays[i] /\ sundays[i] <= end_date
        /\ \A i \in 1..(Len(sundays) - 1) : sundays[i + 1] = sundays[i] + 7
        /\ \A d \in start_date..end_date :
              weekday(d) = 6 => \E i \in 1..Len(sundays) : sundays[i] = d
        /\ start_date > end_date => sundays = <<>>

\* C7, its case: a range that starts on another day than a Sunday and holds
\* several Sundays.
C7_Witness ==
    /\ pc = "returned"
    /\ weekday(start_date) /= 6
    /\ Len(sundays) >= 2

\* C8: a record whose review lookup failed or found nothing, at either
\* sub-step, keeps its supplementary fields absent and its primary fields as
\* aggregated.
C8_FailedLookupLeavesRecord ==
    (/\ Aggregated
     /\ pc /= "review_content"
     /\ enrich_i > 1
     /\ last_outcome \in {"no_response", "http_error", "invalid_json", "no_results",
                          "unexpected_format", "no_docs"})
        => /\ \A k \in 1..Len(REVIEW_FEATURES) :
                 Absent(agg_data[enrich_i - 1], REVIEW_FEATURES[k])
           /\ IsReductionOf(agg_data[enrich_i - 1], agg_data[enrich_i - 1].primary_isbn13)

\* A request is about to be issued.
RequestNext ==
    \/ InLoop /\ total_requests < RequestCeiling
    \/ InReviewLoop
    \/ pc = "review_content"

\* C9: every request is followed by the delay before the next request is
\* issued.
C9_DelayBeforeNextRequest == RequestNext => delayed

\* C10: when today is the acquisition date of a row of the table, the script
\* runs with the range of that row and names the file after it; when it is
\* the acquisition date of no row, no request is issued and no file written.
C10_RunsTheRowOfToday ==
    pc /= "lookup" =>
        /\ \A k \in 1..Len(acquisition_dates) :
              acquisition_dates[k].acquisition_date = today =>
                  /\ start_date = acquisition_dates[k].start_date
                  /\ end_date = acquisition_dates[k].end_date
                  /\ pc = "done" =>
                        /\ output_file.start_date = acquisition_dates[k].start_date
                        /\ output_file.end_date = acquisition_dates[k].end_date
        /\ matching_rows = {} =>
              /\ pc = "no_match"
              /\ fetch_requests + review_requests = 0
              /\ output_file = NoFile

====
